---- MODULE Spec2Model ----
(***************************************************************************)
(* Model of src/main.py: the score ledger ("storico") of a fantasy league. *)
(*                                                                         *)
(* A data frame is a sequence of rows (records); a dict is the sequence of *)
(* its items in insertion order (Python dicts iterate in that order).      *)
(* A team name is a sequence of one-character strings.  Scores are counted *)
(* in units of 1e-6 point, so that float_eps = 1e-6 is one unit.  A        *)
(* timestamp is the number of the run that took it (datetime.now()).       *)
(***************************************************************************)
EXTENDS Integers, Sequences, FiniteSets, TLC

\* Bounds of the model.
MaxScore == 2
MaxCalls == 3
MaxObs == 3
MaxRuns == 2

\* float_eps (main.py:158), in units of 1e-6 point.
float_eps == 1

\* giornata_creata_o_None: the value standing for Python's None.
NoGiornata == 0

Scores == 0..MaxScore

\* Team names as the ranking pages show them, and the names of the parsed
\* rows, where one team also comes in a second spelling.
DisplayNames == { <<"A">>, <<" ", "B">> }

RowNames == DisplayNames \cup { <<"a", " ">> }

\* TARGET_TEAMS: the teams the ledger follows; the pages list others too.
TARGET_TEAMS == << <<"A">>, <<" ", "B">> >>

PageNames == RowNames \cup { <<"C">> }

----------------------------------------------------------------------------
\* Characters and strings.

isspace(c) == c = " "

lower(c) == CASE c = "A" -> "a" [] c = "B" -> "b" [] c = "C" -> "c" [] OTHER -> c

ord(c) == CASE c = " " -> 32 [] c = "A" -> 65 [] c = "B" -> 66 [] c = "C" -> 67
            [] c = "a" -> 97 [] c = "b" -> 98 [] c = "c" -> 99 [] OTHER -> 0

\* -1, 0 or 1 as x is below, equal to or above y.
int_cmp(x, y) == IF x < y THEN -1 ELSE IF x > y THEN 1 ELSE 0

\* The first of two comparisons that tells the values apart.
then_cmp(c, d) == IF c # 0 THEN c ELSE d

\* str.split(): the maximal runs of non-whitespace characters.
RECURSIVE str_split(_, _, _, _)
str_split(s, i, cur, acc) ==
  IF i > Len(s)
    THEN IF cur = <<>> THEN acc ELSE Append(acc, cur)
    ELSE IF isspace(s[i])
      THEN str_split(s, i + 1, <<>>, IF cur = <<>> THEN acc ELSE Append(acc, cur))
      ELSE str_split(s, i + 1, Append(cur, s[i]), acc)

\* " ".join(words)
RECURSIVE str_join(_)
str_join(words) ==
  IF words = <<>> THEN <<>>
  ELSE IF Len(words) = 1 THEN words[1]
  ELSE words[1] \o <<" ">> \o str_join(Tail(words))

\* str.strip()
RECURSIVE str_strip(_)
str_strip(s) ==
  IF s = <<>> THEN s
  ELSE IF isspace(s[1]) THEN str_strip(Tail(s))
  ELSE IF isspace(s[Len(s)]) THEN str_strip(SubSeq(s, 1, Len(s) - 1))
  ELSE s

\* str.lower()
str_lower(s) == [i \in 1..Len(s) |-> lower(s[i])] \o <<>>

normalize_name(name) == str_lower(str_strip(str_join(str_split(name, 1, <<>>, <<>>))))

\* The comparison of Python strings: by code point, a proper prefix first.
RECURSIVE str_cmp_from(_, _, _)
str_cmp_from(s, t, i) ==
  IF i > Len(s) \/ i > Len(t) THEN int_cmp(Len(s), Len(t))
  ELSE IF s[i] = t[i] THEN str_cmp_from(s, t, i + 1)
  ELSE int_cmp(ord(s[i]), ord(t[i]))

str_cmp(s, t) == IF s = t THEN 0 ELSE str_cmp_from(s, t, 1)

----------------------------------------------------------------------------
\* Data frames.

\* The order of sort_values(["squadra_norm", "giornata"]).
by_norm_giornata(r, s) ==
  then_cmp(str_cmp(r.squadra_norm, s.squadra_norm), int_cmp(r.giornata, s.giornata))

\* The order of sort_values(["giornata", "punteggio_totale"], ascending=[True, False]).
by_giornata_punteggio_desc(r, s) ==
  then_cmp(int_cmp(r.giornata, s.giornata), int_cmp(s.punteggio_totale, r.punteggio_totale))

\* The order of sort_values(["giornata", "punteggio_giornata"], ascending=[True, False]).
by_giornata_delta_desc(r, s) ==
  then_cmp(int_cmp(r.giornata, s.giornata),
           int_cmp(s.punteggio_giornata, r.punteggio_giornata))

\* The lower score first.
by_punteggio_asc(r, s) == int_cmp(r.punteggio_totale, s.punteggio_totale)

\* The order of sort_values("punteggio_totale", ascending=False).
by_punteggio_desc(r, s) == int_cmp(s.punteggio_totale, r.punteggio_totale)

\* The comparison of two rows that sort_values(by, ascending) sorts on.
compare_rows(by, r, s) ==
  CASE by = "squadra_norm, giornata" -> by_norm_giornata(r, s)
    [] by = "giornata, -punteggio_totale" -> by_giornata_punteggio_desc(r, s)
    [] by = "giornata, -punteggio_giornata" -> by_giornata_delta_desc(r, s)
    [] by = "-punteggio_totale" -> by_punteggio_desc(r, s)

\* Row r put into the sorted rows acc, after the k rows that do not come
\* after it.
put_at(acc, r, k) == SubSeq(acc, 1, k) \o <<r>> \o SubSeq(acc, k + 1, Len(acc))

put_in_order(acc, r, by) ==
  put_at(acc, r, Cardinality({m \in DOMAIN acc : compare_rows(by, acc[m], r) <= 0}))

RECURSIVE sort_from(_, _, _, _)
sort_from(df, i, acc, by) ==
  IF i > Len(df) THEN acc
  ELSE sort_from(df, i + 1, put_in_order(acc, df[i], by), by)

\* A stable sort of the rows of df on the columns of by.
sort_values(df, by) == sort_from(df, 1, <<>>, by)

\* df.groupby("squadra_norm").tail(1): the last row of each group, in the
\* order of df.
is_last_of_group(df, i) ==
  \A j \in DOMAIN df : j > i => df[j].squadra_norm # df[i].squadra_norm

take_rows(df, idx) == [n \in 1..Len(idx) |-> df[idx[n]]] \o <<>>

groupby_tail(df) ==
  take_rows(df, SelectSeq([i \in 1..Len(df) |-> i] \o <<>>,
                          LAMBDA i : is_last_of_group(df, i)))

df_empty(df) == Len(df) = 0

\* The new rows alone.
pd_concat_new_only(df, df_new) == df_new

pd_concat(df, df_new) == df \o df_new

max_of(S) == CHOOSE x \in S : \A y \in S : y <= x

abs(x) == IF x < 0 THEN -x ELSE x

----------------------------------------------------------------------------
\* collect_current_scores

has_key(scores, norm) == \E i \in DOMAIN scores : scores[i].norm = norm

get_item(scores, norm) == scores[CHOOSE i \in DOMAIN scores : scores[i].norm = norm]

\* scores[norm] = value: a new key goes last, a known key keeps its place.
set_item(scores, item) ==
  IF has_key(scores, item.norm)
    THEN [i \in 1..Len(scores) |->
            IF scores[i].norm = item.norm THEN item ELSE scores[i]] \o <<>>
    ELSE Append(scores, item)

\* row["Punti"] > scores[norm]["Punti"]
beats_or_ties(punti, recorded) == punti >= recorded

beats(punti, recorded) == punti > recorded

RECURSIVE collect_from(_, _, _)
collect_from(all_rows, i, scores) ==
  IF i > Len(all_rows) THEN scores
  ELSE LET row == all_rows[i]
           norm == normalize_name(row.Squadra)
       IN collect_from(all_rows, i + 1,
            IF ~has_key(scores, norm) \/ beats(row.Punti, get_item(scores, norm).Punti)
              THEN set_item(scores, [norm |-> norm, Squadra |-> row.Squadra,
                                     Punti |-> row.Punti])
              ELSE scores)

collect_current_scores(all_rows) == collect_from(all_rows, 1, <<>>)

----------------------------------------------------------------------------
\* update_storico

storico_row(giornata, data_download, obj) ==
  [giornata |-> giornata, data_download |-> data_download, Squadra |-> obj.Squadra,
   squadra_norm |-> obj.norm, punteggio_totale |-> obj.Punti]

make_stats(added_changed, added_new_prev, skipped_unchanged, no_change) ==
  [added_changed |-> added_changed, added_new_prev |-> added_new_prev,
   skipped_unchanged |-> skipped_unchanged, no_change |-> no_change]

\* The timestamp of the run.
prev_date_is_run_date(df_storico, giornata, fallback_dt) == fallback_dt

\* df_storico.loc[df_storico["giornata"] == giornata, "data_download"].max(),
\* or the fallback when there is no such timestamp.
compute_prev_giornata_date(df_storico, giornata, fallback_dt) ==
  LET dts == {df_storico[i].data_download :
                i \in {j \in DOMAIN df_storico : df_storico[j].giornata = giornata}}
  IN IF dts = {} THEN fallback_dt ELSE max_of(dts)

\* The row of lowest giornata of every team.
df_first_of(df_storico) ==
  take_rows(sort_values(df_storico, "squadra_norm, giornata"),
    SelectSeq([i \in 1..Len(df_storico) |-> i] \o <<>>,
      LAMBDA i : \A j \in 1..Len(df_storico) :
        j < i => sort_values(df_storico, "squadra_norm, giornata")[j].squadra_norm
                   # sort_values(df_storico, "squadra_norm, giornata")[i].squadra_norm))

\* The last-score snapshot: the row of highest giornata of every team.
df_last_of(df_storico) == groupby_tail(sort_values(df_storico, "squadra_norm, giornata"))

in_index(norm, df_last) == \E i \in DOMAIN df_last : df_last[i].squadra_norm = norm

loc_punteggio(norm, df_last) ==
  df_last[CHOOSE i \in DOMAIN df_last : df_last[i].squadra_norm = norm].punteggio_totale

is_new(obj, df_last) == ~in_index(obj.norm, df_last)

\* A known team whose score is not exactly the recorded one.
is_changed_exact(obj, df_last) ==
  in_index(obj.norm, df_last)
    /\ abs(obj.Punti - loc_punteggio(obj.norm, df_last)) > 0

\* Every known team.
is_changed_always(obj, df_last) == in_index(obj.norm, df_last)

\* A known team whose score is off by more than twice the tolerance.
is_changed_loose(obj, df_last) ==
  in_index(obj.norm, df_last)
    /\ abs(obj.Punti - loc_punteggio(obj.norm, df_last)) > 2 * float_eps

is_changed(obj, df_last) ==
  in_index(obj.norm, df_last)
    /\ abs(obj.Punti - loc_punteggio(obj.norm, df_last)) > float_eps

is_unchanged(obj, df_last) ==
  in_index(obj.norm, df_last)
    /\ ~(abs(obj.Punti - loc_punteggio(obj.norm, df_last)) > float_eps)

giornata_skipped(last_giornata) == last_giornata + 2

\* The round a round-creating call opens.
giornata_new_of(last_giornata) == last_giornata + 1

backfill_into_new(last_giornata) == last_giornata + 1

\* The round new teams are written to.
backfill_giornata(last_giornata) == last_giornata

\* The guard keyed on the round alone.
drop_existing_rounds(df_storico, df_new) ==
  SelectSeq(df_new, LAMBDA r : r.giornata \notin {df_storico[i].giornata : i \in DOMAIN df_storico})

\* "evita duplicati": the candidate rows whose (giornata, squadra_norm) is not
\* in the ledger yet.
drop_existing(df_storico, df_new) ==
  IF df_empty(df_new) THEN df_new
  ELSE LET existing_keys == {<<df_storico[i].giornata, df_storico[i].squadra_norm>> :
                               i \in DOMAIN df_storico}
       IN SelectSeq(df_new, LAMBDA r : <<r.giornata, r.squadra_norm>> \notin existing_keys)

concat_if_any(df_storico, df_new) ==
  IF ~df_empty(df_new) THEN pd_concat(df_storico, df_new) ELSE df_storico

append_rows(df_storico, rows_to_add) ==
  concat_if_any(df_storico, drop_existing(df_storico, rows_to_add))

rows_at(seq, giornata, data_download) ==
  [i \in 1..Len(seq) |-> storico_row(giornata, data_download, seq[i])] \o <<>>

first_insert(current_scores, run_dt) ==
  LET rows == rows_at(current_scores, 1, run_dt)
  IN [df |-> rows, giornata |-> 1, stats |-> make_stats(Len(rows), 0, 0, 0)]

\* The changed teams written into the latest round, whatever it holds.
apply_rules_in_place(df_storico, run_dt, last_giornata, changed, unchanged, new_teams, prev_dt) ==
  IF changed # <<>> \/ new_teams # <<>> THEN
    [df |-> pd_concat(df_storico, rows_at(changed, last_giornata, run_dt)
                                    \o rows_at(new_teams, last_giornata, prev_dt)),
     giornata |-> NoGiornata,
     stats |-> make_stats(Len(changed), Len(new_teams), Len(unchanged), 0)]
  ELSE
    [df |-> df_storico,
     giornata |-> NoGiornata,
     stats |-> make_stats(0, 0, Len(unchanged), 1)]

\* The three outcomes of a call on a ledger with entries.
apply_rules(df_storico, run_dt, last_giornata, changed, unchanged, new_teams, prev_dt) ==
  IF changed # <<>> THEN
    [df |-> append_rows(df_storico,
              rows_at(changed, giornata_new_of(last_giornata), run_dt)
                \o rows_at(new_teams, backfill_giornata(last_giornata), prev_dt)),
     giornata |-> giornata_new_of(last_giornata),
     stats |-> make_stats(Len(changed), Len(new_teams), Len(unchanged), 0)]
  ELSE IF new_teams # <<>> THEN
    [df |-> append_rows(df_storico,
              rows_at(new_teams, backfill_giornata(last_giornata), prev_dt)),
     giornata |-> NoGiornata,
     stats |-> make_stats(0, Len(new_teams), Len(unchanged), 0)]
  ELSE
    [df |-> df_storico,
     giornata |-> NoGiornata,
     stats |-> make_stats(0, 0, Len(unchanged), 1)]

\* A call on a ledger with entries: the teams are classified against df_last.
reconcile(df_storico, current_scores, run_dt, df_last, last_giornata) ==
  apply_rules(df_storico, run_dt, last_giornata,
    SelectSeq(current_scores, LAMBDA o : is_changed(o, df_last)),
    SelectSeq(current_scores, LAMBDA o : is_unchanged(o, df_last)),
    SelectSeq(current_scores, LAMBDA o : is_new(o, df_last)),
    compute_prev_giornata_date(df_storico, last_giornata, run_dt))

update_storico(df_storico, current_scores, run_dt) ==
  IF df_empty(df_storico) THEN first_insert(current_scores, run_dt)
  ELSE reconcile(df_storico, current_scores, run_dt, df_last_of(df_storico),
                 max_of({df_storico[i].giornata : i \in DOMAIN df_storico}))

----------------------------------------------------------------------------
\* The two views of the ledger, and the sort save_excel applies before writing.

NaN == [isna |-> TRUE, val |-> 0]

\* groupby("squadra_norm")["punteggio_totale"].shift(1) at row i: the score of
\* the previous row of the same team, NaN on the first row of a team.
shift_ungrouped(df, i) ==
  IF i = 1 THEN NaN ELSE [isna |-> FALSE, val |-> df[i - 1].punteggio_totale]

\* The nearest row above row i that is of the same team, from j upwards; 0
\* when there is none.
RECURSIVE prev_in_group(_, _, _)
prev_in_group(df, i, j) ==
  IF j = 0 THEN 0
  ELSE IF df[j].squadra_norm = df[i].squadra_norm THEN j
  ELSE prev_in_group(df, i, j - 1)

shifted(df, j) == IF j = 0 THEN NaN ELSE [isna |-> FALSE, val |-> df[j].punteggio_totale]

groupby_shift(df, i) == shifted(df, prev_in_group(df, i, i - 1))

\* The rows of the sorted frame that have a previous total, with their delta.
delta_rows(df) ==
  take_rows(
    [i \in 1..Len(df) |->
       [giornata |-> df[i].giornata,
        data_download |-> df[i].data_download,
        Squadra |-> df[i].Squadra,
        punteggio_giornata |-> df[i].punteggio_totale - groupby_shift(df, i).val]] \o <<>>,
    SelectSeq([i \in 1..Len(df) |-> i] \o <<>>, LAMBDA i : ~groupby_shift(df, i).isna))

build_punteggi_giornata(df_storico) ==
  IF df_empty(df_storico) THEN <<>>
  ELSE sort_values(delta_rows(sort_values(df_storico, "squadra_norm, giornata")),
                   "giornata, -punteggio_giornata")

\* "ultimo record per squadra".
last_round_rows(df_storico) ==
  LET last_giornata == max_of({df_storico[i].giornata : i \in DOMAIN df_storico})
  IN SelectSeq(sort_values(df_storico, "squadra_norm, giornata"),
               LAMBDA r : r.giornata = last_giornata)

last_per_team_of(df_storico) == groupby_tail(sort_values(df_storico, "squadra_norm, giornata"))

ultima_cols(last_per_team) ==
  [i \in 1..Len(last_per_team) |->
     [Squadra |-> last_per_team[i].Squadra,
      punteggio_totale |-> last_per_team[i].punteggio_totale,
      giornata |-> last_per_team[i].giornata,
      data_download |-> last_per_team[i].data_download]] \o <<>>

insert_posizione(sorted) ==
  [i \in 1..Len(sorted) |->
     [posizione |-> i,
      Squadra |-> sorted[i].Squadra,
      punteggio_totale |-> sorted[i].punteggio_totale,
      giornata |-> sorted[i].giornata,
      data_download |-> sorted[i].data_download]] \o <<>>

\* The sort by score is pandas' default quicksort; on frames this small it
\* keeps rows of equal score in their order, as a stable sort does.
build_ultima_classifica(df_storico) ==
  IF df_empty(df_storico) THEN <<>>
  ELSE insert_posizione(
         sort_values(ultima_cols(last_per_team_of(df_storico)), "-punteggio_totale"))

\* df_storico_sorted of save_excel: the "Storico" sheet as it is written.
storico_sorted(df_storico) == sort_values(df_storico, "giornata, -punteggio_totale")

----------------------------------------------------------------------------
\* main: the filter, the file and the decision to write it.

\* The dict left by the filter; the names not found are only printed.
apply_target_filter(scores, targets) ==
  IF targets = <<>> THEN scores
  ELSE SelectSeq(scores,
         LAMBDA x : x.norm \in {normalize_name(targets[i]) : i \in DOMAIN targets})

\* The workbook: no file, a file without the "Storico" sheet, or the three
\* sheets save_excel writes.
no_file == [kind |-> "absent", Storico |-> <<>>, Punteggi |-> <<>>, Ultima |-> <<>>]

foreign_file == [kind |-> "foreign", Storico |-> <<>>, Punteggi |-> <<>>, Ultima |-> <<>>]

load_storico(excel) == IF excel.kind = "storico" THEN excel.Storico ELSE <<>>

write_sheets(df_storico_sorted) ==
  [kind |-> "storico",
   Storico |-> df_storico_sorted,
   Punteggi |-> build_punteggi_giornata(df_storico_sorted),
   Ultima |-> build_ultima_classifica(df_storico_sorted)]

save_excel(df_storico) == write_sheets(storico_sorted(df_storico))

\* "Non aggiorno l'Excel."
skip_if_nothing_changed(giornata, st) == giornata = NoGiornata /\ st.added_changed = 0

skip_save(giornata, st) ==
  giornata = NoGiornata /\ st.added_new_prev = 0 /\ st.no_change = 1

----------------------------------------------------------------------------
\* The inputs of a run.

\* One item of the current_scores dict: key and value.
ScoreItems == {[norm |-> normalize_name(n), Squadra |-> n, Punti |-> p] :
                 n \in DisplayNames, p \in Scores}

TeamKeys == {normalize_name(n) : n \in DisplayNames}

\* A dict has one item per key; its items come in any order.
CurrentScores ==
  {cs \in UNION {[1..k -> ScoreItems] : k \in 0..Cardinality(TeamKeys)} :
     \A i, j \in DOMAIN cs : i # j => cs[i].norm # cs[j].norm}

----------------------------------------------------------------------------
\* The runs: each one reconciles the ledger with a snapshot.

VARIABLES
  df_storico,        \* the ledger, as the last call returned it
  df_before,         \* the ledger the last call was given
  current_scores,    \* the snapshot the last call was given
  giornata_created,  \* the round the last call returned, or NoGiornata
  stats,             \* the stats the last call returned
  same_scores,       \* the last call got the snapshot of the call before it
  now,               \* the number of calls made; the next run's timestamp is now + 1
  all_rows,          \* the rows parsed from the pages
  shuffled,          \* the same rows in another order
  scores_rows,       \* collect_current_scores(all_rows)
  scores_shuffled,   \* collect_current_scores(shuffled)
  collected,         \* the two reductions have been made
  excel,             \* the workbook on disk
  excel_before,      \* the workbook the last run of main found
  outcome            \* how the last run of main ended

vars == <<df_storico, df_before, current_scores, giornata_created, stats, same_scores, now,
          all_rows, shuffled, scores_rows, scores_shuffled, collected,
          excel, excel_before, outcome>>

storico_vars == <<df_storico, df_before, current_scores, giornata_created, stats,
                  same_scores, now>>

collect_vars == <<all_rows, shuffled, scores_rows, scores_shuffled, collected>>

main_vars == <<excel, excel_before, outcome>>

InitStorico ==
  /\ df_storico = <<>>
  /\ df_before = <<>>
  /\ current_scores = <<>>
  /\ giornata_created = NoGiornata
  /\ stats = make_stats(0, 0, 0, 0)
  /\ same_scores = FALSE
  /\ now = 0

InitCollect ==
  /\ all_rows = <<>>
  /\ shuffled = <<>>
  /\ scores_rows = <<>>
  /\ scores_shuffled = <<>>
  /\ collected = FALSE

\* The ledger: a chain of update_storico calls from the empty ledger.

InitNoMain ==
  /\ excel = no_file
  /\ excel_before = no_file
  /\ outcome = "not run"

Init == InitStorico /\ InitCollect /\ InitNoMain

Run(cs) ==
  /\ now < MaxCalls
  /\ \E res \in {update_storico(df_storico, cs, now + 1)} :
        /\ df_storico' = res.df
        /\ giornata_created' = res.giornata
        /\ stats' = res.stats
  /\ now' = now + 1
  /\ df_before' = df_storico
  /\ current_scores' = cs
  /\ same_scores' = (now > 0 /\ cs = current_scores)
  /\ UNCHANGED collect_vars
  /\ UNCHANGED main_vars

Next == \E cs \in CurrentScores : Run(cs)

Spec == Init /\ [][Next]_vars

\* The same chain of calls seen through the ledger alone: what a call was
\* given and what it returned beside the ledger is not kept.
RunLedger(cs) ==
  /\ now < MaxCalls
  /\ \E res \in {update_storico(df_storico, cs, now + 1)} : df_storico' = res.df
  /\ now' = now + 1
  /\ UNCHANGED <<df_before, current_scores, giornata_created, stats, same_scores>>
  /\ UNCHANGED collect_vars
  /\ UNCHANGED main_vars

NextLedger == \E cs \in CurrentScores : RunLedger(cs)

SpecLedger == Init /\ [][NextLedger]_vars

\* The reduction: collect_current_scores on a list of rows and on a
\* permutation of it.

RawRows == [Squadra : RowNames, Punti : Scores]

InitRows ==
  /\ InitStorico
  /\ InitNoMain
  /\ all_rows \in UNION {[1..k -> RawRows] : k \in 0..MaxObs}
  /\ shuffled = all_rows
  /\ scores_rows = <<>>
  /\ scores_shuffled = <<>>
  /\ collected = FALSE

Swap(i) ==
  /\ ~collected
  /\ i + 1 <= Len(shuffled)
  /\ shuffled' = [shuffled EXCEPT ![i] = shuffled[i + 1], ![i + 1] = shuffled[i]]
  /\ UNCHANGED <<all_rows, scores_rows, scores_shuffled, collected>>
  /\ UNCHANGED storico_vars
  /\ UNCHANGED main_vars

Collect ==
  /\ ~collected
  /\ scores_rows' = collect_current_scores(all_rows)
  /\ scores_shuffled' = collect_current_scores(shuffled)
  /\ collected' = TRUE
  /\ UNCHANGED <<all_rows, shuffled>>
  /\ UNCHANGED storico_vars
  /\ UNCHANGED main_vars

NextCollect == (\E i \in 1..MaxObs : Swap(i)) \/ Collect

SpecCollect == InitRows /\ [][NextCollect]_vars

\* The program: runs of main on the workbook the run before left.

PageRows == [Squadra : PageNames, Punti : Scores]

\* What a run has after collect_current_scores and the filter, for every
\* list of rows the pages may give.
MainInputs ==
  {[no_rows |-> r = <<>>,
    scores |-> apply_target_filter(collect_current_scores(r), TARGET_TEAMS)] :
     r \in UNION {[1..k -> PageRows] : k \in 0..MaxObs}}

InitMain ==
  /\ InitStorico
  /\ InitCollect
  /\ excel \in {no_file, foreign_file}
  /\ excel_before = excel
  /\ outcome = "not run"

Exit(how) ==
  /\ outcome' = how
  /\ UNCHANGED <<df_storico, df_before, current_scores, giornata_created, stats,
                 same_scores, excel>>

Reconcile(cs) ==
  \E res \in {update_storico(load_storico(excel), cs, now + 1)} :
    /\ df_before' = load_storico(excel)
    /\ current_scores' = cs
    /\ df_storico' = res.df
    /\ giornata_created' = res.giornata
    /\ stats' = res.stats
    /\ same_scores' = (outcome \in {"saved", "no change"} /\ cs = current_scores)
    /\ IF skip_save(res.giornata, res.stats)
         THEN outcome' = "no change" /\ excel' = excel
         ELSE outcome' = "saved" /\ excel' = save_excel(res.df)

Main(inp) ==
  /\ now < MaxRuns
  /\ now' = now + 1
  /\ excel_before' = excel
  /\ IF inp.no_rows THEN Exit("no data")
     ELSE IF inp.scores = <<>> THEN Exit("no team")
     ELSE Reconcile(inp.scores)
  /\ UNCHANGED collect_vars

NextMain == \E inp \in MainInputs : Main(inp)

SpecMain == InitMain /\ [][NextMain]_vars

----------------------------------------------------------------------------
\* Properties of update_storico, checked under Spec.

giornate_of(df) == {df[i].giornata : i \in DOMAIN df}

norms_of(df) == {df[i].squadra_norm : i \in DOMAIN df}

rows_of_team(df, norm) == {i \in DOMAIN df : df[i].squadra_norm = norm}

giornata_monotone(df) ==
  \A i \in DOMAIN df : i + 1 \in DOMAIN df => df[i].giornata <= df[i + 1].giornata

called == now > 0

rule1 == called /\ df_before = <<>>

rule2 == called /\ df_before # <<>> /\ giornata_created # NoGiornata

\* C1. Append-only ledger: every entry of the ledger given to a call is in the
\* ledger the call returns, with the same field values.
C1_AppendOnly ==
  called => \A i \in DOMAIN df_before : \E j \in DOMAIN df_storico : df_storico[j] = df_before[i]

\* A call on a ledger with entries has added entries to it.
C1_Witness ==
  called /\ df_before # <<>> /\ Len(df_storico) > Len(df_before)

\* C2. No duplicate keys: no two entries of the ledger have the same
\* (giornata, squadra_norm).
C2_NoDuplicateKeys ==
  \A i, j \in DOMAIN df_storico :
    i # j => <<df_storico[i].giornata, df_storico[i].squadra_norm>>
               # <<df_storico[j].giornata, df_storico[j].squadra_norm>>

\* A call has added entries to a ledger in which a team has several rounds.
C2_Witness ==
  /\ now >= 2
  /\ Len(df_storico) > Len(df_before)
  /\ \E i, j \in DOMAIN df_before :
       i # j /\ df_before[i].squadra_norm = df_before[j].squadra_norm

\* C3. Round monotonicity: a returned round is the highest round of the given
\* ledger plus one, or 1 when the given ledger is empty, and it is then the
\* highest round of the returned ledger.
C3_RoundMonotonicity ==
  (called /\ giornata_created # NoGiornata) =>
    /\ IF df_before = <<>> THEN giornata_created = 1
       ELSE giornata_created = max_of(giornate_of(df_before)) + 1
    /\ df_storico # <<>>
    /\ max_of(giornate_of(df_storico)) = giornata_created

\* C4. No-op stability: a call with the snapshot of the call before it returns
\* no round and the ledger it was given.
C4_NoOpStability ==
  same_scores => giornata_created = NoGiornata /\ df_storico = df_before

\* C5. Empty snapshot: a call with a snapshot of no team returns the ledger it
\* was given, no round, and counts that are all zero.
C5_EmptySnapshot ==
  (called /\ current_scores = <<>>) =>
    /\ df_storico = df_before
    /\ giornata_created = NoGiornata
    /\ stats.added_changed = 0
    /\ stats.added_new_prev = 0
    /\ stats.skipped_unchanged = 0

\* C6. Backfill targets the previous round: in a round-creating call on a
\* ledger with entries, a snapshot team that the given ledger does not know
\* gets one entry, at the highest round of the given ledger, with its current
\* score, and none at the new round.
C6_BackfillPreviousRound ==
  rule2 =>
    \A k \in DOMAIN current_scores :
      current_scores[k].norm \notin norms_of(df_before) =>
        LET mine == rows_of_team(df_storico, current_scores[k].norm)
        IN /\ Cardinality(mine) = 1
           /\ \A i \in mine :
                /\ df_storico[i].giornata = max_of(giornate_of(df_before))
                /\ df_storico[i].giornata # giornata_created
                /\ df_storico[i].punteggio_totale = current_scores[k].Punti

\* A round-creating call on a ledger with entries met a team it did not know.
C6_Witness ==
  /\ rule2
  /\ stats.added_new_prev > 0
  /\ \E k \in DOMAIN current_scores : current_scores[k].norm \notin norms_of(df_before)

\* C7. Ledger order is round-monotone: giornata never decreases along the
\* entries of the returned ledger.
C7_RoundMonotone == giornata_monotone(df_storico)

\* C7, as amended: along the returned ledger giornata drops by at most 1; the
\* entries a call appends start at or above the last entry it was given and
\* do not decrease, unless the call both opens a round and backfills new
\* teams; and the ledger as save_excel sorts it never decreases.
C7_RoundOrderAmended ==
  /\ \A i \in DOMAIN df_storico :
       i + 1 \in DOMAIN df_storico => df_storico[i + 1].giornata >= df_storico[i].giornata - 1
  /\ (called /\ ~(rule2 /\ stats.added_new_prev > 0)) =>
       \A i \in DOMAIN df_storico :
         (i >= Len(df_before) /\ i + 1 \in DOMAIN df_storico) =>
           df_storico[i].giornata <= df_storico[i + 1].giornata
  /\ giornata_monotone(storico_sorted(df_storico))

\* A call opened a round and backfilled a new team: giornata drops in the ledger.
C7_Witness ==
  /\ rule2
  /\ stats.added_new_prev > 0
  /\ ~giornata_monotone(df_storico)

\* The team key of a display name.
key_of == [n \in RowNames |-> normalize_name(n)]

\* C9. Standings completeness: build_ultima_classifica has one row per team
\* of the ledger, and no row for the empty ledger.
one_row_per_team(df, ultima) ==
  /\ Len(ultima) = Cardinality(norms_of(df))
  /\ \A norm \in norms_of(df) :
       Cardinality({i \in DOMAIN ultima : key_of[ultima[i].Squadra] = norm}) = 1
  /\ df = <<>> => ultima = <<>>

C9_StandingsCompleteness == one_row_per_team(df_storico, build_ultima_classifica(df_storico))

\* The standings of a ledger whose teams are at different rounds.
rounds_differ(ultima) == \E i, j \in DOMAIN ultima : ultima[i].giornata # ultima[j].giornata

C9_Witness == rounds_differ(build_ultima_classifica(df_storico))

\* The delta rows expected of a ledger: one for every entry that has an entry
\* of the same team at a lower round, against the nearest such round.
expected_deltas(df) ==
  LET earlier(i) == {j \in rows_of_team(df, df[i].squadra_norm) : df[j].giornata < df[i].giornata}
      nearest(i) == CHOOSE j \in earlier(i) : \A h \in earlier(i) : df[h].giornata <= df[j].giornata
      later == SelectSeq([i \in 1..Len(df) |-> i] \o <<>>, LAMBDA i : earlier(i) # {})
  IN [n \in 1..Len(later) |->
        [giornata |-> df[later[n]].giornata,
         data_download |-> df[later[n]].data_download,
         Squadra |-> df[later[n]].Squadra,
         punteggio_giornata |->
           df[later[n]].punteggio_totale - df[nearest(later[n])].punteggio_totale]] \o <<>>

same_rows(a, b) ==
  /\ Len(a) = Len(b)
  /\ \A r \in {a[i] : i \in DOMAIN a} \cup {b[i] : i \in DOMAIN b} :
       Cardinality({i \in DOMAIN a : a[i] = r}) = Cardinality({i \in DOMAIN b : b[i] = r})

\* C10. Delta consistency: build_punteggi_giornata has no row for the lowest
\* round of a team and one row for every other entry, whose score is the
\* entry's total minus the team's total at the next lower round; so it has
\* as many rows as the ledger has entries beyond one per team.
deltas_as_expected(df, punti) ==
  /\ same_rows(punti, expected_deltas(df))
  /\ Len(punti) = Len(df) - Cardinality(norms_of(df))

C10_DeltaConsistency == deltas_as_expected(df_storico, build_punteggi_giornata(df_storico))

\* The deltas of a ledger in which a team has three rounds.
C10_Witness ==
  /\ \E norm \in norms_of(df_storico) : Cardinality(rows_of_team(df_storico, norm)) >= 3
  /\ build_punteggi_giornata(df_storico) # <<>>

\* The row of a team at its highest round, and the classes of the snapshot
\* teams against the ledger a call was given.
latest_row(df, norm) ==
  CHOOSE i \in rows_of_team(df, norm) :
    \A j \in rows_of_team(df, norm) : df[j].giornata <= df[i].giornata

off_latest(df, item) ==
  abs(item.Punti - df[latest_row(df, item.norm)].punteggio_totale) > float_eps

new_items == {k \in DOMAIN current_scores : current_scores[k].norm \notin norms_of(df_before)}

changed_items ==
  {k \in DOMAIN current_scores :
     current_scores[k].norm \in norms_of(df_before) /\ off_latest(df_before, current_scores[k])}

unchanged_items ==
  {k \in DOMAIN current_scores :
     current_scores[k].norm \in norms_of(df_before) /\ ~off_latest(df_before, current_scores[k])}

\* The rows a call appended to the ledger it was given.
appended == {i \in DOMAIN df_storico : i > Len(df_before)}

appended_of(norm) == {i \in appended : df_storico[i].squadra_norm = norm}

keeps_given == SubSeq(df_storico, 1, Len(df_before)) = df_before

max_giornata(df) == IF df = <<>> THEN 0 ELSE max_of(giornate_of(df))

\* C12. Rule 3, new teams only: when the given ledger has entries, no
\* snapshot team is off its latest score by more than float_eps and some
\* snapshot team is unknown, the call returns no round, the highest round
\* stays, and every new team gets one entry at it with its current score.
C12_NewTeamsOnly ==
  (called /\ df_before # <<>> /\ changed_items = {} /\ new_items # {}) =>
    /\ giornata_created = NoGiornata
    /\ max_giornata(df_storico) = max_giornata(df_before)
    /\ keeps_given
    /\ Cardinality(appended) = Cardinality(new_items)
    /\ \A k \in new_items :
         /\ Cardinality(appended_of(current_scores[k].norm)) = 1
         /\ \A i \in appended_of(current_scores[k].norm) :
              /\ df_storico[i].giornata = max_giornata(df_before)
              /\ df_storico[i].punteggio_totale = current_scores[k].Punti

\* A call met a new team beside a known one whose score moved within the
\* tolerance.
C12_Witness ==
  /\ called /\ df_before # <<>> /\ changed_items = {} /\ new_items # {}
  /\ \E k \in unchanged_items :
       current_scores[k].Punti
         # df_before[latest_row(df_before, current_scores[k].norm)].punteggio_totale

\* C13. Rule 2, round creation: when the given ledger has entries and some
\* snapshot team is changed, every changed team gets one entry, at the new
\* round, with its current score and the timestamp of the run, and every
\* unchanged team gets none.
C13_RoundCreation ==
  (called /\ df_before # <<>> /\ changed_items # {}) =>
    /\ keeps_given
    /\ \A k \in changed_items :
         /\ Cardinality(appended_of(current_scores[k].norm)) = 1
         /\ \A i \in appended_of(current_scores[k].norm) :
              /\ df_storico[i].giornata = max_giornata(df_before) + 1
              /\ df_storico[i].punteggio_totale = current_scores[k].Punti
              /\ df_storico[i].data_download = now
    /\ \A k \in unchanged_items : appended_of(current_scores[k].norm) = {}

\* A call found one team changed and another within the tolerance of its
\* latest score, though not on it.
C13_Witness ==
  /\ called /\ df_before # <<>> /\ changed_items # {}
  /\ \E k \in unchanged_items :
       current_scores[k].Punti
         # df_before[latest_row(df_before, current_scores[k].norm)].punteggio_totale

\* C14. Classification and stats: on a ledger with entries the counts are
\* those of the teams that are unknown, off their highest-round score and
\* within the tolerance of it; after every call the three counts add up to
\* the teams of the snapshot, and the first two to the entries appended.
C14_ClassificationStats ==
  called =>
    /\ df_before # <<>> =>
         /\ stats.added_changed = Cardinality(changed_items)
         /\ stats.added_new_prev = Cardinality(new_items)
         /\ stats.skipped_unchanged = Cardinality(unchanged_items)
    /\ stats.added_changed + stats.added_new_prev + stats.skipped_unchanged
         = Len(current_scores)
    /\ stats.added_changed + stats.added_new_prev = Len(df_storico) - Len(df_before)

\* A team is back on the score of an older round of its own, off its latest.
C14_Witness ==
  /\ called
  /\ \E k \in changed_items :
       \E i \in rows_of_team(df_before, current_scores[k].norm) :
         df_before[i].punteggio_totale = current_scores[k].Punti

\* C15. No-change flag: no_change is 1 exactly when the call returns the
\* entries it was given and no round.
C15_NoChangeFlag ==
  called =>
    (stats.no_change = 1
       <=> (same_rows(df_storico, df_before) /\ giornata_created = NoGiornata))

\* A call that returned no round reports added teams, and its rows went
\* through the guard.
C15_Witness ==
  /\ called /\ df_before # <<>>
  /\ giornata_created = NoGiornata
  /\ stats.added_new_prev > 0
  /\ stats.no_change = 0
  /\ ~same_rows(df_storico, df_before)

\* C16. Backfill timestamp: an entry appended for a new team to a ledger with
\* entries has the latest timestamp of the highest round of that ledger,
\* never the timestamp of the run.
C16_BackfillTimestamp ==
  (called /\ df_before # <<>>) =>
    \A k \in new_items :
      \A i \in appended_of(current_scores[k].norm) :
        /\ \E j \in DOMAIN df_before :
             /\ df_before[j].giornata = max_giornata(df_before)
             /\ df_before[j].data_download = df_storico[i].data_download
        /\ \A j \in DOMAIN df_before :
             df_before[j].giornata = max_giornata(df_before)
               => df_before[j].data_download <= df_storico[i].data_download
        /\ df_storico[i].data_download # now

\* A new team was backfilled into a round that was opened more than one
\* run before.
C16_Witness ==
  /\ called /\ df_before # <<>> /\ new_items # {}
  /\ \E i \in appended : df_storico[i].data_download < now - 1

\* A standings row against the ledger row it is taken from.
is_row_of(u_row, row) ==
  /\ u_row.Squadra = row.Squadra
  /\ u_row.punteggio_totale = row.punteggio_totale
  /\ u_row.giornata = row.giornata
  /\ u_row.data_download = row.data_download

standings_in_order(u, df) ==
  /\ Len(u) = Cardinality(norms_of(df))
  /\ \A i \in DOMAIN u : u[i].posizione = i
  /\ \A i \in DOMAIN u :
       i < Len(u) => u[i].punteggio_totale >= u[i + 1].punteggio_totale
  /\ \A n \in norms_of(df) :
       Cardinality({i \in DOMAIN u : is_row_of(u[i], df[latest_row(df, n)])}) = 1

\* C17. Standings order: the rows of build_ultima_classifica are the
\* highest-round entries of the teams, one each, by score from high to low,
\* and posizione counts them 1..n.
C17_StandingsOrder == standings_in_order(build_ultima_classifica(df_storico), df_storico)

standings_reordered(u) ==
  /\ Len(u) = 2
  /\ u[1].Squadra = <<" ", "B">>
  /\ u[1].punteggio_totale > u[2].punteggio_totale
  /\ u[1].giornata < u[2].giornata

\* The team that comes second by name leads the standings from an older
\* round.
C17_Witness == standings_reordered(build_ultima_classifica(df_storico))

standings_track(u, scores) ==
  \A k \in DOMAIN scores :
    /\ Cardinality({i \in DOMAIN u : key_of[u[i].Squadra] = scores[k].norm}) = 1
    /\ \A i \in DOMAIN u :
         key_of[u[i].Squadra] = scores[k].norm
           => abs(u[i].punteggio_totale - scores[k].Punti) <= float_eps

\* C18. Standings track the last snapshot: after a call every snapshot team
\* has one standings row, with a score within float_eps of its snapshot
\* score.
C18_StandingsTrackSnapshot ==
  called => standings_track(build_ultima_classifica(df_storico), current_scores)

\* A team stands on its recorded score, the snapshot being off it within
\* the tolerance, while another team got a new round.
C18_Witness ==
  /\ called /\ df_before # <<>> /\ giornata_created # NoGiornata
  /\ \E k \in unchanged_items :
       current_scores[k].Punti
         # df_before[latest_row(df_before, current_scores[k].norm)].punteggio_totale

\* Two rows of one team with no round of that team between them.
consecutive(df, i, j) ==
  /\ df[i].squadra_norm = df[j].squadra_norm
  /\ df[i].giornata < df[j].giornata
  /\ \A m \in DOMAIN df :
       df[m].squadra_norm = df[i].squadra_norm
         => ~(df[i].giornata < df[m].giornata /\ df[m].giornata < df[j].giornata)

no_zero_delta(deltas) ==
  \A i \in DOMAIN deltas : abs(deltas[i].punteggio_giornata) > float_eps

\* C19. No redundant history: two entries of a team at consecutive rounds
\* of its history differ by more than float_eps, and no row of
\* build_punteggi_giornata has a delta within float_eps of zero.
C19_NoRedundantHistory ==
  /\ \A i, j \in DOMAIN df_storico :
       consecutive(df_storico, i, j)
         => abs(df_storico[j].punteggio_totale - df_storico[i].punteggio_totale) > float_eps
  /\ no_zero_delta(build_punteggi_giornata(df_storico))

\* A team has three entries, hence two deltas.
C19_Witness ==
  /\ \E n \in norms_of(df_storico) : Cardinality(rows_of_team(df_storico, n)) = 3
  /\ Len(build_punteggi_giornata(df_storico)) >= 2

\* C20. Rounds are contiguous: the rounds of the ledger are 1 up to the
\* highest, and a call raises the highest round by one at most.
C20_RoundsContiguous ==
  /\ giornate_of(df_storico) = 1..max_giornata(df_storico)
  /\ called => max_giornata(df_storico) - max_giornata(df_before) \in {0, 1}

\* The ledger has three rounds and a team is missing from the middle one.
C20_Witness ==
  /\ max_giornata(df_storico) = 3
  /\ \E n \in norms_of(df_storico) :
       {df_storico[i].giornata : i \in rows_of_team(df_storico, n)} = {1, 3}

----------------------------------------------------------------------------
\* Properties of collect_current_scores, checked under SpecCollect.

items_of(scores) == {scores[i] : i \in DOMAIN scores}

\* C8. Reduction is order-independent: the rows and a permutation of them
\* reduce to the same mapping.
C8_OrderIndependent ==
  collected => items_of(scores_rows) = items_of(scores_shuffled)

\* What the reduction of rows keeps of a team: the highest score, under the
\* name of the first row that has it.
kept_of(rows, norm) ==
  LET mine == {i \in DOMAIN rows : normalize_name(rows[i].Squadra) = norm}
      best == max_of({rows[i].Punti : i \in mine})
      first == CHOOSE i \in mine :
                 /\ rows[i].Punti = best
                 /\ \A j \in mine : rows[j].Punti = best => i <= j
  IN [norm |-> norm, Squadra |-> rows[first].Squadra, Punti |-> best]

\* C8, as amended: the rows and a permutation of them reduce to the same
\* teams with the same scores, the highest of each team; the name kept for a
\* team is that of the first row, in the order reduced, with that score.
C8_OrderIndependentAmended ==
  collected =>
    /\ {<<x.norm, x.Punti>> : x \in items_of(scores_rows)}
         = {<<x.norm, x.Punti>> : x \in items_of(scores_shuffled)}
    /\ items_of(scores_rows)
         = {kept_of(all_rows, normalize_name(all_rows[i].Squadra)) : i \in DOMAIN all_rows}
    /\ items_of(scores_shuffled)
         = {kept_of(shuffled, normalize_name(shuffled[i].Squadra)) : i \in DOMAIN shuffled}
    /\ Len(scores_rows) = Cardinality(items_of(scores_rows))

\* Two spellings of a team tie on its highest score, and the two orders keep
\* different names.
C8_Witness ==
  /\ collected
  /\ shuffled # all_rows
  /\ items_of(scores_rows) # items_of(scores_shuffled)

----------------------------------------------------------------------------
\* Properties of main, checked under SpecMain.

reconciled == outcome \in {"saved", "no change"}

\* C11. Driver persistence decision: once update_storico has returned, main
\* writes the workbook unless no round was created, no team was backfilled
\* and the stats report no change; so it leaves the workbook as it was
\* exactly when the reconciled ledger has the entries of the loaded one.
C11_PersistenceDecision ==
  reconciled =>
    /\ outcome = "no change"
         <=> (giornata_created = NoGiornata /\ stats.added_new_prev = 0 /\ stats.no_change = 1)
    /\ outcome = "no change" <=> same_rows(df_storico, df_before)
    /\ outcome = "no change" => excel = excel_before
    /\ outcome = "saved" =>
         excel.kind = "storico" /\ same_rows(excel.Storico, df_storico) /\ excel # excel_before

\* A run created no round and wrote, into a workbook it found, the teams it
\* met for the first time.
C11_Witness ==
  /\ outcome = "saved"
  /\ excel_before.kind = "storico"
  /\ giornata_created = NoGiornata
  /\ stats.added_new_prev > 0

====
